---- MODULE Spec2Model ----
(***************************************************************************)
(* Operation scheduler of the service manager (operations/scheduler.go).   *)
(*                                                                         *)
(* The scheduler stores an Operation record, gates it against the last     *)
(* operation of the same resource, runs the caller's action synchronously  *)
(* or in a pooled goroutine, and reconciles the stored operation state     *)
(* (and the Ready flag of created resources) after the action returns.     *)
(*                                                                         *)
(* Every goroutine that is inside a Schedule* call, or that is an async    *)
(* worker, is a thread of the model.  A thread takes one step per access   *)
(* to shared state (the workers channel, one repository call, one          *)
(* repository transaction), so that all interleavings of the repository    *)
(* calls of concurrent handlers are explored.                              *)
(***************************************************************************)
EXTENDS Integers, Sequences, FiniteSets, TLC

\* ------------------------------------------------------------------ bounds
\* Goroutines alive at once, clock values, pool sizes, counted error writes,
\* calls of callers, operation IDs, and disturbances in one behaviour (a
\* failed repository call or context attach, a cancellation, a call of a
\* caller that overlaps another handler).
MaxThreads == 2
MaxTime == 2
MaxPoolSize == 1
MaxErrWrites == 2
MaxSubmits == 2
MaxOps == 2
MaxFaults == 1

\* ------------------------------------------------------- scheduler settings
\* In units of the clock.
ActionTimeout == 1
ReconciliationOperationTimeout == 1
ReschedulingDelay == 1

Threads == 1..MaxThreads
OpIDs == 1..MaxOps
Resources == {"r1"}
TransitiveID == "t1"
ResIDs == Resources \cup {TransitiveID}
Types == {"CREATE", "UPDATE", "DELETE"}
SubmittedTypes == {"CREATE", "DELETE"}
CallerStates == {"IN_PROGRESS", "SUCCEEDED"}
Terminal == {"SUCCEEDED", "FAILED"}

VARIABLES
    poolSize,     \* cap(s.workers), fixed by NewScheduler
    workers,      \* len(s.workers): occupied pool slots
    wg,           \* the wait-group counter
    ops,          \* repository: operation records by ID
    opOrder,      \* repository: operation IDs by paging_sequence
    res,          \* repository: resources ("absent", "ready", "notready")
    now,          \* wall clock
    smCancelled,  \* s.smCtx is done
    crashed,      \* a panic escaped a goroutine: the process is gone
    th,           \* the threads (handlers and workers)
    ret,          \* what a Schedule* call returned to its caller in the last step
    errWrites,    \* per operation ID: persisted assignments of Errors
    submits,      \* calls of Schedule* by callers so far
    faults        \* disturbances so far: failed calls, cancellations, overlapping calls

vars == <<poolSize, workers, wg, ops, opOrder, res, now, smCancelled, crashed,
          th, ret, errWrites, submits, faults>>

\* ------------------------------------------------------------ data shapes
NoOp ==
    [id |-> 0, type |-> "none", state |-> "none", resourceID |-> "none",
     reschedule |-> FALSE, ds |-> 0, errors |-> "", updatedAt |-> 0]

\* The operation a caller hands to Schedule*: DeletionScheduled is zero (0)
\* or a timestamp; Errors is empty.
NewOperation(id, type, state, rid, reschedule, ds) ==
    [id |-> id, type |-> type, state |-> state, resourceID |-> rid,
     reschedule |-> reschedule, ds |-> ds, errors |-> "", updatedAt |-> 0]

\* An in-memory copy of a stored record (UpdatedAt is never read from it).
Mem(rec) == [rec EXCEPT !.updatedAt = 0]

IdleThread ==
    [pc |-> "idle", kind |-> "none", op |-> NoOp, last |-> NoOp,
     action |-> "none", actionErr |-> "", trans |-> "none",
     cancelled |-> FALSE, delayUntil |-> 0]

\* What a call returns: the error ("nil" for none), and whether the
\* caller's context was cancelled by then.
NoReturn == [call |-> "none", id |-> 0, err |-> "none", cancelled |-> FALSE]

Return(call, id, err) == [call |-> call, id |-> id, err |-> err, cancelled |-> FALSE]

Min(a, b) == IF a < b THEN a ELSE b

\* ------------------------------------------------------------- repository
\* Any call on the repository, and attaching the operation to a context, may
\* fail; a behaviour holds at most MaxFaults disturbances.
CanFail == faults < MaxFaults

\* Repository.Create / Repository.Update of an operation: the store stamps
\* updated_at.
Stored(op) == [op EXCEPT !.updatedAt = now]

\* IDs are unique: Create of an existing ID fails.
CanCreate(id) == ops[id] = NoOp

\* Update of a missing record fails.
CanUpdate(id) == ops[id] # NoOp

\* Get(OperationType, resource_id = rid, order by paging_sequence desc)
RECURSIVE LastOf(_, _)
LastOf(seq, rid) ==
    IF seq = <<>> THEN NoOp
    ELSE IF ops[seq[Len(seq)]].resourceID = rid THEN ops[seq[Len(seq)]]
    ELSE LastOf(SubSeq(seq, 1, Len(seq) - 1), rid)

getResourceLastOperation(operation) == LastOf(opOrder, operation.resourceID)

\* ------------------------------------------------------------------ gate
isDeletionScheduled(lastOperation) == lastOperation.ds # 0

\* A variant without the heartbeat: IN_PROGRESS blocks at any age.
isLastOpInProgressNoTimeout(lastOperation) ==
    lastOperation.state = "IN_PROGRESS"

isLastOpInProgress(lastOperation) ==
    /\ lastOperation.state = "IN_PROGRESS"
    /\ now < lastOperation.updatedAt + ActionTimeout

isAReschedule(operation, lastOperation) ==
    lastOperation.reschedule /\ operation.reschedule

SameTypeConflict(operation, lastOperation) ==
    /\ isLastOpInProgress(lastOperation)
    /\ ~isDeletionScheduled(lastOperation)
    /\ ~isAReschedule(operation, lastOperation)

\* A variant that looks at no type: any operation in progress blocks.
checkForConcurrentOperationsNoPreempt(operation, lastOperation) ==
    IF isLastOpInProgress(lastOperation) THEN "ConcurrentOperationInProgress"
    ELSE "nil"

\* "nil", "ConcurrentOperationInProgress" or "UnknownType"
checkForConcurrentOperations(operation, lastOperation) ==
    CASE lastOperation.type = "CREATE" ->
           (CASE operation.type = "CREATE" ->
                   IF SameTypeConflict(operation, lastOperation)
                   THEN "ConcurrentOperationInProgress" ELSE "nil"
              [] operation.type = "UPDATE" ->
                   IF isLastOpInProgress(lastOperation)
                   THEN "ConcurrentOperationInProgress" ELSE "nil"
              [] operation.type = "DELETE" -> "nil"
              [] OTHER -> "UnknownType")
      [] lastOperation.type = "UPDATE" ->
           (CASE operation.type = "CREATE" ->
                   IF isLastOpInProgress(lastOperation)
                   THEN "ConcurrentOperationInProgress" ELSE "nil"
              [] operation.type = "UPDATE" ->
                   IF SameTypeConflict(operation, lastOperation)
                   THEN "ConcurrentOperationInProgress" ELSE "nil"
              [] operation.type = "DELETE" -> "nil"
              [] OTHER -> "UnknownType")
      [] lastOperation.type = "DELETE" ->
           (CASE operation.type = "CREATE" ->
                   IF isLastOpInProgress(lastOperation) \/ isDeletionScheduled(lastOperation)
                   THEN "ConcurrentOperationInProgress" ELSE "nil"
              [] operation.type = "UPDATE" ->
                   IF isLastOpInProgress(lastOperation) \/ isDeletionScheduled(lastOperation)
                   THEN "ConcurrentOperationInProgress" ELSE "nil"
              [] operation.type = "DELETE" ->
                   IF SameTypeConflict(operation, lastOperation)
                   THEN "ConcurrentOperationInProgress" ELSE "nil"
              [] OTHER -> "UnknownType")
      [] OTHER -> "UnknownType"

\* A variant that updates the record of any operation that is resubmitted.
storeOrUpdateOperationAlways(operation, lastOperation) ==
    IF lastOperation = NoOp \/ operation.id # lastOperation.id THEN "create"
    ELSE "update"

\* A variant that updates the record for a cooperative reschedule only.
storeOrUpdateOperationReschedulesOnly(operation, lastOperation) ==
    IF lastOperation = NoOp \/ operation.id # lastOperation.id THEN "create"
    ELSE IF operation.reschedule THEN "update"
    ELSE "reject"

\* A variant that looks at the deletion scheduled on the last operation.
storeOrUpdateOperationByLast(operation, lastOperation) ==
    IF lastOperation = NoOp \/ operation.id # lastOperation.id THEN "create"
    ELSE IF operation.reschedule \/ lastOperation.ds # 0 THEN "update"
    ELSE "reject"

\* "create", "update" or "reject"
storeOrUpdateOperation(operation, lastOperation) ==
    IF lastOperation = NoOp \/ operation.id # lastOperation.id THEN "create"
    ELSE IF operation.reschedule \/ operation.ds # 0 THEN "update"
    ELSE "reject"

\* ------------------------------------------------------ operation state
\* A variant that also resets the deletion scheduled on the operation.
updateOperationStateClearing(operation, state, opErr) ==
    [operation EXCEPT !.state = state, !.ds = 0,
                      !.errors = IF opErr # "" /\ @ = "" THEN opErr ELSE @]

\* A variant that records no error payload.
updateOperationStateNoErrors(operation, state, opErr) ==
    [operation EXCEPT !.state = state]

\* The in-memory operation after updateOperationState, before its Update.
updateOperationState(operation, state, opErr) ==
    [operation EXCEPT !.state = state,
                      !.errors = IF opErr # "" /\ @ = "" THEN opErr ELSE @]


\* ---------------------------------------------------------------- contexts
\* util.StateContext keeps the values of the wrapped context and hides its
\* cancellation: Done() of the wrapper never fires.
StateContextDone(cancelled) == FALSE

\* A variant that hands the caller's context to the reconciler as it is.
ReconcileCtxDoneRaw(t) == th[t].cancelled

\* Whether the context handed to handleActionResponse (and from there to the
\* repository) is done: both entry points wrap the caller's context.
ReconcileCtxDone(t) == StateContextDone(th[t].cancelled)

\* ------------------------------------------------------------ worker pool
\* A variant whose send never finds the channel full.
PoolUnbounded == TRUE

\* A variant whose channel has room for one more than its capacity.
PoolSparesOneSlot == workers <= poolSize

\* select { case s.workers <- struct{}{}: ... default: ... }
PoolHasFreeSlot == workers < poolSize

\* --------------------------------------------------------------- threads
LowestIdle ==
    CHOOSE t \in Threads :
        /\ th[t].pc = "idle"
        /\ \A u \in Threads : th[u].pc = "idle" => t <= u

HasIdle == \E t \in Threads : th[t].pc = "idle"

Running == ~crashed

\* A worker whose handler is over, with the error it logged, before its
\* deferred release.
AsyncExit(err) == [IdleThread EXCEPT !.pc = "exit", !.kind = "async", !.actionErr = err]

\* A variant in which a worker hands its error to a caller.
FinishReturning(t, err) ==
    IF th[t].kind = "sync"
    THEN /\ th' = [th EXCEPT ![t] = IdleThread]
         /\ ret' = [Return("sync", th[t].op.id, err) EXCEPT !.cancelled = th[t].cancelled]
    ELSE /\ th' = [th EXCEPT ![t] = AsyncExit(err)]
         /\ ret' = Return("async", th[t].op.id, err)

\* The handler of thread t is over with error err ("nil" for none): a sync
\* call returns it to its caller, an async worker logs it and goes on to
\* its deferred release.
Finish(t, err) ==
    IF th[t].kind = "sync"
    THEN /\ th' = [th EXCEPT ![t] = IdleThread]
         /\ ret' = [Return("sync", th[t].op.id, err) EXCEPT !.cancelled = th[t].cancelled]
    ELSE /\ th' = [th EXCEPT ![t] = AsyncExit(err)]
         /\ ret' = NoReturn

\* errWrites after a persisted updateOperationState(operation, _, opErr)
Bump(operation, opErr) ==
    IF opErr # "" /\ operation.errors = ""
    THEN [errWrites EXCEPT ![operation.id] = Min(@ + 1, MaxErrWrites)]
    ELSE errWrites

\* ------------------------------------------------------------ admission
\* A call of a caller takes the lowest free thread of the model.
Start(t, kind, operation) ==
    /\ HasIdle
    /\ t = LowestIdle
    /\ IF \E u \in Threads : th[u].pc # "idle"
       THEN CanFail /\ faults' = faults + 1
       ELSE faults' = faults
    /\ th' = [th EXCEPT ![t] = [IdleThread EXCEPT !.pc = "pre_read", !.kind = kind,
                                                  !.op = operation, !.action = "user"]]
    /\ ret' = NoReturn

\* The checks of executeOperationPreconditions that read no shared state:
\* "nil" when they pass.
LocalPreconditions(operation) ==
    IF operation.state = "SUCCEEDED" THEN "NotAllowed"
    ELSE IF operation.type \notin Types THEN "Invalid"
    ELSE "nil"

\* ScheduleSyncStorageAction up to the first repository call.
BeginSync(t, operation) ==
    /\ Running
    /\ submits < MaxSubmits
    /\ submits' = submits + 1
    /\ IF LocalPreconditions(operation) # "nil"
       THEN /\ ret' = Return("sync", operation.id, LocalPreconditions(operation))
            /\ UNCHANGED <<th, faults>>
       ELSE Start(t, "sync", operation)
    /\ UNCHANGED <<poolSize, workers, wg, ops, opOrder, res, now, smCancelled,
                   crashed, errWrites>>

\* A variant that stores the operation before it rejects the call.
RejectBusyStoring(t, operation) ==
    /\ ~PoolHasFreeSlot
    /\ ret' = Return("async", operation.id, "ServiceUnavailable")
    /\ ops' = [ops EXCEPT ![operation.id] = Stored(operation)]
    /\ UNCHANGED <<poolSize, workers, wg, opOrder, res, now, smCancelled,
                   crashed, th, errWrites, faults>>

\* The default branch of the select: all workers are busy.
RejectBusy(t, operation) ==
    /\ ~PoolHasFreeSlot
    /\ ret' = Return("async", operation.id, "ServiceUnavailable")
    /\ UNCHANGED <<poolSize, workers, wg, ops, opOrder, res, now, smCancelled,
                   crashed, th, errWrites, faults>>

\* The send branch of the select, up to the first repository call.  A
\* precondition that fails before any repository call gives the slot back.
Admit(t, operation) ==
    /\ PoolHasFreeSlot
    /\ IF LocalPreconditions(operation) # "nil"
       THEN /\ ret' = Return("async", operation.id, LocalPreconditions(operation))
            /\ UNCHANGED <<th, workers, faults>>
       ELSE /\ Start(t, "async", operation)
            /\ workers' = workers + 1
    /\ UNCHANGED <<poolSize, wg, ops, opOrder, res, now, smCancelled, crashed,
                   errWrites>>

\* ScheduleAsyncStorageAction up to the first repository call.
BeginAsync(t, operation) ==
    /\ Running
    /\ submits < MaxSubmits
    /\ submits' = submits + 1
    /\ \/ Admit(t, operation)
       \/ RejectBusy(t, operation)

\* -------------------------------------------------------- preconditions
Nested(t) == th[t].pc \in {"m_read", "m_store"}

\* A variant that returns err without giving the slot back.
FailAdmissionKeepingSlot(t, err) ==
    /\ workers' = workers
    /\ IF Nested(t)
       THEN Finish(t, "BrokerError")
       ELSE /\ th' = [th EXCEPT ![t] = IdleThread]
            /\ ret' = Return(th[t].kind, th[t].op.id, err)

\* executeOperationPreconditions returned err.  ScheduleAsync gives its slot
\* back and returns err; when the call is the orphan-mitigation re-admission
\* made by handleActionResponseFailure, that one returns a BrokerError.
FailAdmission(t, err) ==
    IF Nested(t)
    THEN /\ workers' = workers - 1
         /\ Finish(t, "BrokerError")
    ELSE /\ workers' = IF th[t].kind = "async" THEN workers - 1 ELSE workers
         /\ th' = [th EXCEPT ![t] = IdleThread]
         /\ ret' = Return(th[t].kind, th[t].op.id, err)

\* getResourceLastOperation: one Get on the repository.
ReadLast(t) ==
    /\ Running
    /\ th[t].pc \in {"pre_read", "m_read"}
    /\ \/ /\ th' = [th EXCEPT ![t].last = getResourceLastOperation(th[t].op),
                              ![t].pc = IF Nested(t) THEN "m_store" ELSE "pre_store"]
          /\ ret' = NoReturn
          /\ UNCHANGED <<workers, faults>>
       \/ /\ CanFail
          /\ faults' = faults + 1
          /\ FailAdmission(t, "StorageError")
    /\ UNCHANGED <<submits, poolSize, wg, ops, opOrder, res, now, smCancelled, crashed,
                   errWrites>>

\* The verdict of the gate on what ReadLast found.
GateVerdict(t) ==
    IF th[t].last = NoOp THEN "nil"
    ELSE checkForConcurrentOperations(th[t].op, th[t].last)

\* The thread that runs the admitted operation: the caller's goroutine for a
\* sync call, a new goroutine for an async one.
Worker(kind, operation, action, trans) ==
    [IdleThread EXCEPT !.pc = "run", !.kind = kind, !.op = operation,
                       !.action = action, !.trans = trans]

\* The operation is stored: the sync call goes on to its action; the async
\* call adds the worker to the wait-group, starts it and returns nil.  The
\* re-admission of an orphan mitigation starts the worker of the delete
\* action, and handleActionResponseFailure returns the action's error.
Admitted(t) ==
    IF Nested(t)
    THEN /\ HasIdle
         /\ wg' = wg + 1
         /\ workers' = workers
         /\ IF th[t].kind = "sync"
            THEN /\ th' = [th EXCEPT ![t] = IdleThread,
                                     ![LowestIdle] = Worker("async", th[t].op, "delete", th[t].trans)]
                 /\ ret' = Return("sync", th[t].op.id, "ActionError")
            ELSE /\ th' = [th EXCEPT ![t] = AsyncExit("ActionError"),
                                     ![LowestIdle] = Worker("async", th[t].op, "delete", th[t].trans)]
                 /\ ret' = NoReturn
    ELSE IF th[t].kind = "sync"
    THEN /\ th' = [th EXCEPT ![t] = Worker("sync", th[t].op, "user", "none")]
         /\ ret' = NoReturn
         /\ UNCHANGED <<wg, workers>>
    ELSE /\ th' = [th EXCEPT ![t] = Worker("async", th[t].op, "user", "none")]
         /\ wg' = wg + 1
         /\ workers' = workers
         /\ ret' = Return("async", th[t].op.id, "nil")

\* checkForConcurrentOperations and storeOrUpdateOperation: the gate, then
\* one Create or Update on the repository.
GateAndStore(t) ==
    /\ Running
    /\ th[t].pc \in {"pre_store", "m_store"}
    /\ LET operation == th[t].op
           verdict == GateVerdict(t)
           how == storeOrUpdateOperation(operation, th[t].last)
           reject(err) == /\ FailAdmission(t, err)
                          /\ UNCHANGED <<wg, ops, opOrder, faults>>
       IN  IF verdict # "nil" THEN reject(verdict)
           ELSE IF how = "reject" THEN reject("AlreadyExecuted")
           ELSE \/ /\ how = "create"
                   /\ CanCreate(operation.id)
                   /\ ops' = [ops EXCEPT ![operation.id] = Stored(operation)]
                   /\ opOrder' = Append(opOrder, operation.id)
                   /\ Admitted(t)
                   /\ UNCHANGED faults
                \/ /\ how = "update"
                   /\ CanUpdate(operation.id)
                   /\ ops' = [ops EXCEPT ![operation.id] = Stored(operation)]
                   /\ Admitted(t)
                   /\ UNCHANGED <<opOrder, faults>>
                \/ /\ \/ how = "create" /\ ~CanCreate(operation.id)
                      \/ how = "update" /\ ~CanUpdate(operation.id)
                   /\ reject("StorageError")
                \/ /\ CanFail
                   /\ faults' = faults + 1
                   /\ FailAdmission(t, "StorageError")
                   /\ UNCHANGED <<wg, ops, opOrder>>
    /\ UNCHANGED <<submits, poolSize, res, now, smCancelled, crashed, errWrites>>


\* ------------------------------------------------------------ the action
ReadyVal(b) == IF b THEN "ready" ELSE "notready"

\* What an action has done to the repository when it returns.  A CREATE
\* action stores the resource (as the binding helper of the tests does, with
\* the Ready flag it chooses) together with a transitive resource that it
\* registers on the operation with operation type CREATE, and it may do so
\* before it fails; a DELETE action and the delete action of an orphan
\* mitigation remove the resource.
Effects(t, outcome) ==
    LET rid == th[t].op.resourceID
        none == [res |-> res, trans |-> th[t].trans]
        created ==
            { [res |-> [res EXCEPT ![rid] = ReadyVal(b), ![TransitiveID] = ReadyVal(b)],
               trans |-> "CREATE"] : b \in BOOLEAN }
        deleted == [res |-> [res EXCEPT ![rid] = "absent"], trans |-> th[t].trans]
    IN  IF th[t].action = "delete"
        THEN IF outcome = "ok" THEN {deleted} ELSE {none}
        ELSE CASE outcome = "panic" -> {none}
               [] th[t].op.type = "CREATE" ->
                    IF outcome = "ok" THEN created ELSE created \cup {none}
               [] th[t].op.type = "DELETE" ->
                    IF outcome = "ok" THEN {deleted} ELSE {none}
               [] OTHER -> {none}

Outcomes(t) == IF th[t].action = "delete" THEN {"ok", "err"} ELSE {"ok", "err", "panic"}

\* Update of the operation by updateOperationState(operation, state, opErr)
\* on a context that is done (ctxDone) or not: the Update may fail.  paid is
\* 1 when an earlier call of the same step has failed, 0 otherwise.
PersistState(operation, state, opErr, ctxDone, paid) ==
    \/ /\ ~ctxDone
       /\ CanUpdate(operation.id)
       /\ ops' = [ops EXCEPT ![operation.id] = Stored(updateOperationState(operation, state, opErr))]
       /\ errWrites' = Bump(operation, opErr)
       /\ faults' = faults + paid
    \/ /\ ctxDone \/ ~CanUpdate(operation.id)
       /\ faults' = faults + paid
       /\ UNCHANGED <<ops, errWrites>>
    \/ /\ ~ctxDone
       /\ CanUpdate(operation.id)
       /\ paid = 1 \/ CanFail
       /\ faults' = faults + 1
       /\ UNCHANGED <<ops, errWrites>>

\* addOperationToContext fails before the action: the operation is marked
\* FAILED and the handler is over.
AttachFails(t) ==
    /\ Running
    /\ th[t].pc = "run"
    /\ CanFail
    /\ PersistState(th[t].op, "FAILED", "ContextError", FALSE, 1)
    /\ Finish(t, "ContextError")
    /\ UNCHANGED <<submits, poolSize, workers, wg, opOrder, res, now, smCancelled, crashed>>

\* action(ctx, s.repository): returns an object, returns an error, or
\* panics.  A panic of a sync action unwinds into the caller; a panic of an
\* async action is caught by the deferred function of the worker.
RunAction(t) ==
    /\ Running
    /\ th[t].pc = "run"
    /\ \E outcome \in Outcomes(t) :
         \E e \in Effects(t, outcome) :
            /\ res' = e.res
            /\ IF outcome = "panic"
               THEN IF th[t].kind = "sync"
                    THEN /\ th' = [th EXCEPT ![t] = IdleThread]
                         /\ ret' = Return("sync", th[t].op.id, "panic")
                    ELSE /\ th' = [th EXCEPT ![t].pc = "recover"]
                         /\ ret' = NoReturn
               ELSE /\ th' = [th EXCEPT ![t].pc = "refetch",
                                        ![t].trans = e.trans,
                                        ![t].actionErr = IF outcome = "err" THEN "ActionError" ELSE ""]
                    /\ ret' = NoReturn
    /\ UNCHANGED <<submits, faults, poolSize, workers, wg, ops, opOrder, now, smCancelled, crashed,
                   errWrites>>

\* --------------------------------------------------------- the reconciler
\* A variant that keeps in progress every operation whose action returned
\* no error.
keptInProgressWhenever(actionErr, opAfterJob) == actionErr = ""

\* A variant that keeps no operation in progress.
keptInProgressNever(actionErr, opAfterJob) == FALSE

\* The last branch of handleActionResponse: no action error, and the
\* re-fetched operation asks for a reschedule.
keptInProgress(actionErr, opAfterJob) == actionErr = "" /\ opAfterJob.reschedule

\* A variant that goes on to the dispatch with the copy the handler holds
\* when the re-fetch has failed.
RefetchIgnoringFailure(t) ==
    /\ Running
    /\ th[t].pc = "refetch"
    /\ LET opAfterJob == Mem(ops[th[t].op.id])
       IN  \/ /\ IF keptInProgress(th[t].actionErr, opAfterJob)
                 THEN Finish(t, "nil")
                 ELSE /\ th' = [th EXCEPT ![t].op = opAfterJob, ![t].pc = "reconcile"]
                      /\ ret' = NoReturn
              /\ UNCHANGED <<ops, errWrites, faults>>
           \/ /\ CanFail
              /\ PersistState(th[t].op, "FAILED", "RefetchError", FALSE, 1)
              /\ th' = [th EXCEPT ![t].pc = "reconcile"]
              /\ ret' = NoReturn
    /\ UNCHANGED <<submits, poolSize, workers, wg, opOrder, res, now, smCancelled, crashed>>

\* handleActionResponse up to its dispatch: refetchOperation (one Get, and
\* on its failure one Update of the copy the handler holds), then
\* addOperationToContext on the re-fetched operation.  An operation that
\* asks for a reschedule and whose action returned no error is left as it is.
Refetch(t) ==
    /\ Running
    /\ th[t].pc = "refetch"
    /\ LET ctxDone == ReconcileCtxDone(t)
           opAfterJob == Mem(ops[th[t].op.id])
       IN  \/ /\ ~ctxDone
              /\ IF keptInProgress(th[t].actionErr, opAfterJob)
                 THEN Finish(t, "nil")
                 ELSE /\ th' = [th EXCEPT ![t].op = opAfterJob, ![t].pc = "reconcile"]
                      /\ ret' = NoReturn
              /\ UNCHANGED <<ops, errWrites, faults>>
           \/ /\ ~ctxDone
              /\ CanFail
              /\ PersistState(opAfterJob, "FAILED", "ContextError", ctxDone, 1)
              /\ Finish(t, "ContextError")
           \/ /\ ~ctxDone
              /\ CanFail
              /\ PersistState(th[t].op, "FAILED", "RefetchError", ctxDone, 1)
              /\ Finish(t, "RefetchError")
           \/ /\ ctxDone
              /\ PersistState(th[t].op, "FAILED", "RefetchError", ctxDone, 0)
              /\ Finish(t, "RefetchError")
    /\ UNCHANGED <<submits, poolSize, workers, wg, opOrder, res, now, smCancelled, crashed>>

\* A variant that sets Ready to true whatever it is asked for.
SetReadyTrue(r, rid, trans, b) ==
    [x \in ResIDs |->
        IF r[x] # "absent" /\ (x = rid \/ (x = TransitiveID /\ trans = "CREATE"))
        THEN ReadyVal(TRUE) ELSE r[x]]

\* fetchAndUpdateResource on the primary resource and updateTransitiveResources
\* on the transitive resources recorded with operation type CREATE; a
\* resource that is not found is skipped.
SetReady(r, rid, trans, b) ==
    [x \in ResIDs |->
        IF r[x] # "absent" /\ (x = rid \/ (x = TransitiveID /\ trans = "CREATE"))
        THEN ReadyVal(b) ELSE r[x]]

\* The condition under which the failure path sets Ready to false.
failureResetsReady(opAfterJob) ==
    opAfterJob.type = "CREATE" /\ opAfterJob.state = "FAILED"

\* A variant without the reconciliation window.
isDeleteRescheduleRequiredNoWindow(opAfterJob) ==
    opAfterJob.ds # 0 /\ opAfterJob.state # "SUCCEEDED"

isDeleteRescheduleRequired(opAfterJob) ==
    /\ opAfterJob.ds # 0
    /\ now < opAfterJob.ds + ReconciliationOperationTimeout
    /\ opAfterJob.state # "SUCCEEDED"

\* A variant in which every action that succeeds ends the operation SUCCEEDED.
finalStateSucceeded(opAfterJob) == "SUCCEEDED"

finalState(opAfterJob) ==
    IF opAfterJob.type # "DELETE" /\ opAfterJob.ds # 0 THEN "FAILED" ELSE "SUCCEEDED"

\* A variant that leaves the deletion scheduled on the operation.
keepDeletionScheduled(opAfterJob) == opAfterJob

\* opAfterJob.DeletionScheduled = time.Time{}
clearDeletionScheduled(opAfterJob) == [opAfterJob EXCEPT !.ds = 0]

\* The transaction of handleActionResponseFailure and the decision on the
\* orphan mitigation that follows it.
handleActionResponseFailure(t) ==
    LET opAfterJob == th[t].op
        failed == updateOperationState(opAfterJob, "FAILED", th[t].actionErr)
    IN  \/ /\ ~ReconcileCtxDone(t)
           /\ res' = IF failureResetsReady(opAfterJob)
                     THEN SetReady(res, opAfterJob.resourceID, th[t].trans, FALSE)
                     ELSE res
           /\ ops' = [ops EXCEPT ![opAfterJob.id] = Stored(failed)]
           /\ errWrites' = Bump(opAfterJob, th[t].actionErr)
           /\ IF isDeleteRescheduleRequired(failed)
              THEN /\ th' = [th EXCEPT ![t].op = failed, ![t].pc = "delay",
                                       ![t].delayUntil = now + ReschedulingDelay]
                   /\ ret' = NoReturn
              ELSE Finish(t, "ActionError")
           /\ UNCHANGED faults
        \/ /\ ReconcileCtxDone(t)
           /\ Finish(t, "TxError")
           /\ UNCHANGED <<ops, res, errWrites, faults>>
        \/ /\ ~ReconcileCtxDone(t)
           /\ CanFail
           /\ faults' = faults + 1
           /\ Finish(t, "TxError")
           /\ UNCHANGED <<ops, res, errWrites>>

\* The transaction of handleActionResponseSuccess.  updateResource is given
\* the object of the action; the delete action of an orphan mitigation
\* returns none, and setting Ready on it panics.
handleActionResponseSuccess(t) ==
    LET opAfterJob == th[t].op
        final == finalState(opAfterJob)
        cleared == clearDeletionScheduled(
                       [opAfterJob EXCEPT !.errors = IF final = "SUCCEEDED" THEN "" ELSE @])
        flip == opAfterJob.type = "CREATE" /\ final = "SUCCEEDED"
    IN  \/ /\ flip
           /\ th[t].action = "delete"
           /\ th' = [th EXCEPT ![t].pc = "recover"]
           /\ ret' = NoReturn
           /\ UNCHANGED <<ops, res, errWrites, faults>>
        \/ /\ ~ReconcileCtxDone(t)
           /\ flip => th[t].action # "delete" /\ res[opAfterJob.resourceID] # "absent"
           /\ res' = IF flip
                     THEN SetReady(res, opAfterJob.resourceID, th[t].trans, TRUE)
                     ELSE res
           /\ ops' = [ops EXCEPT ![opAfterJob.id] =
                                     Stored(updateOperationState(cleared, final, ""))]
           /\ Finish(t, "nil")
           /\ UNCHANGED <<errWrites, faults>>
        \/ /\ \/ ReconcileCtxDone(t)
              \/ flip /\ res[opAfterJob.resourceID] = "absent"
           /\ flip => th[t].action # "delete"
           /\ Finish(t, "TxError")
           /\ UNCHANGED <<ops, res, errWrites, faults>>
        \/ /\ ~ReconcileCtxDone(t)
           /\ flip => th[t].action # "delete" /\ res[opAfterJob.resourceID] # "absent"
           /\ CanFail
           /\ faults' = faults + 1
           /\ Finish(t, "TxError")
           /\ UNCHANGED <<ops, res, errWrites>>

\* The dispatch of handleActionResponse on the action's error.
Reconcile(t) ==
    /\ Running
    /\ th[t].pc = "reconcile"
    /\ IF th[t].actionErr # ""
       THEN handleActionResponseFailure(t)
       ELSE handleActionResponseSuccess(t)
    /\ UNCHANGED <<submits, poolSize, workers, wg, opOrder, now, smCancelled, crashed>>


\* ------------------------------------------------------ orphan mitigation
\* A variant whose select has no case for the lifecycle context.
DelayIgnoringLifecycle(t) ==
    /\ Running
    /\ th[t].pc = "delay"
    /\ smCancelled \/ now >= th[t].delayUntil
    /\ IF PoolHasFreeSlot
       THEN /\ workers' = workers + 1
            /\ th' = [th EXCEPT ![t].pc = "m_read", ![t].delayUntil = 0]
            /\ ret' = NoReturn
       ELSE /\ Finish(t, "BrokerError")
            /\ UNCHANGED workers
    /\ UNCHANGED <<submits, faults, poolSize, wg, ops, opOrder, res, now, smCancelled, crashed,
                   errWrites>>

\* The select of handleActionResponseFailure on s.smCtx.Done() and the
\* rescheduling delay, and the admission of ScheduleAsyncStorageAction for
\* the same operation with the delete action.  The select takes the case
\* that is ready first: the lifecycle context when it is cancelled before
\* the delay has elapsed, the timer otherwise.
Delay(t) ==
    /\ Running
    /\ th[t].pc = "delay"
    /\ \/ /\ smCancelled
          /\ now < th[t].delayUntil
          /\ Finish(t, "SmCanceled")
          /\ UNCHANGED workers
       \/ /\ now >= th[t].delayUntil
          /\ IF PoolHasFreeSlot
             THEN /\ workers' = workers + 1
                  /\ th' = [th EXCEPT ![t].pc = "m_read", ![t].delayUntil = 0]
                  /\ ret' = NoReturn
             ELSE /\ Finish(t, "BrokerError")
                  /\ UNCHANGED workers
    /\ UNCHANGED <<submits, faults, poolSize, wg, ops, opOrder, res, now, smCancelled, crashed,
                   errWrites>>

\* ------------------------------------------------------------ the worker
JobInterrupted == "JobInterrupted"

\* The deferred function of the worker after a panic: refetchOperation, then
\* updateOperationState on what it returned.  When the re-fetch fails it
\* returns no operation, and updateOperationState dereferences it: the
\* panic of the deferred function ends the process.
Recover(t) ==
    /\ Running
    /\ th[t].pc = "recover"
    /\ \/ /\ PersistState(Mem(ops[th[t].op.id]), "FAILED", JobInterrupted, FALSE, 0)
          /\ th' = [th EXCEPT ![t] = AsyncExit("panic")]
          /\ UNCHANGED crashed
       \/ /\ CanFail
          /\ PersistState(th[t].op, "FAILED", "RefetchError", FALSE, 1)
          /\ th' = [th EXCEPT ![t].pc = "crashed"]
          /\ crashed' = TRUE
    /\ ret' = NoReturn
    /\ UNCHANGED <<submits, poolSize, workers, wg, opOrder, res, now, smCancelled>>

\* <-s.workers; s.wg.Done()
WorkerExit(t) ==
    /\ Running
    /\ th[t].pc = "exit"
    /\ workers' = workers - 1
    /\ wg' = wg - 1
    /\ th' = [th EXCEPT ![t] = IdleThread]
    /\ UNCHANGED <<submits, faults, poolSize, ops, opOrder, res, now, smCancelled, crashed,
                   errWrites>>
    /\ ret' = NoReturn

\* ----------------------------------------------------------- environment
\* The clock advances by one unit of the scheduler's settings.  The units are
\* long against a repository call: time passes between calls, while an
\* action runs and while a handler waits for the rescheduling delay.  A
\* handler that the cancellation of the lifecycle context has woken from
\* its wait returns before the clock advances.
Tick ==
    /\ now < MaxTime
    /\ \A t \in Threads : th[t].pc \in {"idle", "run", "delay", "crashed"}
    /\ \A t \in Threads : th[t].pc = "delay" /\ smCancelled => now >= th[t].delayUntil
    /\ now' = now + 1
    /\ UNCHANGED <<submits, faults, poolSize, workers, wg, ops, opOrder, res, smCancelled, crashed,
                   th, errWrites>>
    /\ ret' = NoReturn

\* The lifecycle context of the process is cancelled.  The scheduler reads
\* s.smCtx in the select of the rescheduling delay only, so the cancellation
\* is taken when a thread is there: an earlier one shows in the same way.
CancelLifecycle ==
    /\ Running
    /\ ~smCancelled
    /\ \E t \in Threads : th[t].pc = "delay"
    /\ CanFail
    /\ faults' = faults + 1
    /\ smCancelled' = TRUE
    /\ UNCHANGED <<submits, poolSize, workers, wg, ops, opOrder, res, now, crashed,
                   th, errWrites>>
    /\ ret' = NoReturn

AfterAction == {"refetch", "reconcile"}

\* The caller of ScheduleSyncStorageAction cancels its context after the
\* action has returned.
CancelCaller(t) ==
    /\ Running
    /\ th[t].kind = "sync"
    /\ th[t].pc \in AfterAction
    /\ ~th[t].cancelled
    /\ CanFail
    /\ faults' = faults + 1
    /\ th' = [th EXCEPT ![t].cancelled = TRUE]
    /\ UNCHANGED <<submits, poolSize, workers, wg, ops, opOrder, res, now, smCancelled,
                   crashed, errWrites>>
    /\ ret' = NoReturn

\* ------------------------------------------------------------------ spec
\* IDs are opaque: a call brings an ID that is in use, or the first of
\* those that are not.
UsedIDs == {th[t].op.id : t \in Threads} \cup {id \in OpIDs : ops[id] # NoOp}

FreshIDs == {id \in OpIDs \ UsedIDs : \A other \in OpIDs \ UsedIDs : id <= other}

AllReschedules ==
    { NewOperation(id, type, state, rid, TRUE, ds) :
        id \in OpIDs, type \in SubmittedTypes, state \in CallerStates,
        rid \in Resources, ds \in 0..MaxTime }

\* The operations callers submit: plain ones, cooperative reschedules, and
\* operations with a deletion scheduled now.
Submissions ==
    { NewOperation(id, type, state, rid, reschedule, ds) :
        id \in (UsedIDs \cap OpIDs) \cup FreshIDs, type \in SubmittedTypes,
        state \in CallerStates, rid \in Resources,
        reschedule \in BOOLEAN, ds \in {0, now} } \ {op \in AllReschedules : op.ds # 0}

Init ==
    /\ poolSize \in 1..MaxPoolSize
    /\ workers = 0
    /\ wg = 0
    /\ ops = [id \in OpIDs |-> NoOp]
    /\ opOrder = <<>>
    /\ res = [x \in ResIDs |-> "absent"]
    /\ now = 1
    /\ smCancelled = FALSE
    /\ crashed = FALSE
    /\ th = [t \in Threads |-> IdleThread]
    /\ ret = NoReturn
    /\ errWrites = [id \in OpIDs |-> 0]
    /\ submits = 0
    /\ faults = 0

Next ==
    \/ \E t \in Threads, operation \in Submissions :
          \/ BeginSync(t, operation)
          \/ BeginAsync(t, operation)
    \/ \E t \in Threads :
          \/ ReadLast(t)
          \/ GateAndStore(t)
          \/ AttachFails(t)
          \/ RunAction(t)
          \/ Refetch(t)
          \/ Reconcile(t)
          \/ Delay(t)
          \/ Recover(t)
          \/ WorkerExit(t)
          \/ CancelCaller(t)
    \/ Tick
    \/ CancelLifecycle

Spec == Init /\ [][Next]_vars

\* --------------------------------------------------------- the gate alone
\* The operations and the last operations the gate is applied to.
GateOperations ==
    { NewOperation(1, type, "IN_PROGRESS", "r1", reschedule, ds) :
        type \in Types, reschedule \in BOOLEAN, ds \in {0, 1} }

GateLastOperations ==
    { [NewOperation(id, type, state, "r1", reschedule, ds) EXCEPT !.updatedAt = at] :
        id \in OpIDs, type \in Types, state \in {"IN_PROGRESS"} \cup Terminal,
        reschedule \in BOOLEAN, ds \in {0, 1}, at \in 0..MaxTime } \cup {NoOp}

\* A call that has read its last operation, at any time of the clock.
GateInit ==
    /\ poolSize \in 1..MaxPoolSize
    /\ workers = 0
    /\ wg = 0
    /\ ops = [id \in OpIDs |-> NoOp]
    /\ opOrder = <<>>
    /\ res = [x \in ResIDs |-> "absent"]
    /\ smCancelled = FALSE
    /\ crashed = FALSE
    /\ ret = NoReturn
    /\ errWrites = [id \in OpIDs |-> 0]
    /\ submits = 0
    /\ faults = 0
    /\ \E operation \in GateOperations, lastOperation \in GateLastOperations :
          /\ th = [t \in Threads |->
                     IF t = 1
                     THEN [IdleThread EXCEPT !.pc = "pre_store", !.kind = "sync",
                                             !.op = operation, !.last = lastOperation,
                                             !.action = "user"]
                     ELSE IdleThread]
    /\ now \in 1..(MaxTime + 1)

\* The call of checkForConcurrentOperations in
\* executeOperationPreconditions: its verdict is handed to the caller.
GateStep(t) ==
    /\ th[t].pc = "pre_store"
    /\ th' = [th EXCEPT ![t].pc = "gated"]
    /\ ret' = Return("gate", th[t].op.id, GateVerdict(t))
    /\ UNCHANGED <<poolSize, workers, wg, ops, opOrder, res, now, smCancelled,
                   crashed, errWrites, submits, faults>>

\* The call of storeOrUpdateOperation that follows a nil verdict of the
\* gate: what it does to the repository is handed to the caller.
StoreStep(t) ==
    /\ th[t].pc = "gated"
    /\ ret.err = "nil"
    /\ th' = [th EXCEPT ![t].pc = "decided"]
    /\ ret' = Return("store", th[t].op.id, storeOrUpdateOperation(th[t].op, th[t].last))
    /\ UNCHANGED <<poolSize, workers, wg, ops, opOrder, res, now, smCancelled,
                   crashed, errWrites, submits, faults>>

GateNext == \E t \in Threads : GateStep(t) \/ StoreStep(t)

GateSpec == GateInit /\ [][GateNext]_vars

\* ------------------------------------------------------------ properties
\* Async workers that have been admitted and have not exited.
AsyncWorkers ==
    {t \in Threads : th[t].kind = "async" /\ th[t].pc \notin {"idle", "pre_read", "pre_store"}}

\* C1: at every reachable state the number of async workers that have been
\* admitted (by a caller's call or by an orphan-mitigation re-admission) and
\* have not exited is at most the occupancy of the pool, which is at most
\* PoolSize.
PoolBound ==
    /\ Cardinality(AsyncWorkers) <= workers
    /\ workers <= poolSize

\* The pool is full and the worker of an orphan mitigation runs its action.
PoolBoundWitness ==
    /\ workers = poolSize
    /\ \E t \in Threads : t \in AsyncWorkers /\ th[t].pc = "run" /\ th[t].action = "delete"

\* C2: a call of ScheduleAsync that returns ServiceUnavailable found the pool
\* full, and created or updated no operation record, started no handler or
\* worker, ran no action, and left the pool occupancy and the wait-group
\* counter as they were.
BusyRejectionHasNoEffect ==
    [][ret'.err = "ServiceUnavailable" =>
          /\ workers = poolSize
          /\ UNCHANGED <<ops, opOrder, res, workers, wg, th, errWrites>>]_vars

\* A call was rejected with ServiceUnavailable while a worker held the pool.
BusyRejectionWitness ==
    /\ ret = Return("async", ret.id, "ServiceUnavailable")
    /\ AsyncWorkers # {}

\* The step in which operation b is created in the repository.
Creates(b) == ops[b] = NoOp /\ ops'[b] # NoOp

\* Operation a is stored for the resource of b, IN_PROGRESS and not abandoned.
BlocksResourceOf(a, b) ==
    /\ a # b
    /\ ops[a] # NoOp
    /\ ops[a].resourceID = ops'[b].resourceID
    /\ ops[a].state = "IN_PROGRESS"
    /\ now < ops[a].updatedAt + ActionTimeout

\* The cases in which the gate lets b in beside a.
GateAllows(b, a) ==
    \/ ops'[b].type = "DELETE" /\ ops[a].type \in {"CREATE", "UPDATE"}
    \/ ops'[b].reschedule /\ ops[a].reschedule
    \/ ops[a].ds # 0

\* C3: an operation is admitted and stored beside another operation of the
\* same resource that is IN_PROGRESS and not abandoned only in the cases
\* the gate allows (a DELETE after a CREATE or UPDATE, two reschedules, a
\* last operation with a deletion scheduled); in particular two plain
\* CREATE operations of one resource are never both admitted and stored.
ConcurrentAdmissionsAllowed ==
    [][\A a, b \in OpIDs : Creates(b) /\ BlocksResourceOf(a, b) => GateAllows(b, a)]_vars

\* The decision table of the gate: TRUE where new is rejected after last.
GateTable(new, last) ==
    LET isLastInProgress == last.state = "IN_PROGRESS" /\ now < last.updatedAt + ActionTimeout
        deletionScheduled == last.ds # 0
        isReschedule == last.reschedule /\ new.reschedule
    IN  \/ last.type = new.type /\ isLastInProgress /\ ~deletionScheduled /\ ~isReschedule
        \/ last.type = "CREATE" /\ new.type = "UPDATE" /\ isLastInProgress
        \/ last.type = "UPDATE" /\ new.type = "CREATE" /\ isLastInProgress
        \/ last.type = "DELETE" /\ new.type \in {"CREATE", "UPDATE"}
              /\ (isLastInProgress \/ deletionScheduled)

Gated(t) == th[t].pc = "gated" /\ ret.call = "gate"

\* C4: for all types of the last and the new operation and all values of
\* isLastInProgress, isDeletionScheduled and isReschedule, the gate returns
\* ConcurrentOperationInProgress exactly in the cases of the decision table
\* and nil otherwise; a DELETE after a CREATE or UPDATE is never rejected.
GateFollowsTable ==
    \A t \in Threads :
        Gated(t) =>
          /\ ret.err = IF GateTable(th[t].op, th[t].last)
                       THEN "ConcurrentOperationInProgress" ELSE "nil"
          /\ th[t].op.type = "DELETE" /\ th[t].last.type \in {"CREATE", "UPDATE"}
                => ret.err = "nil"

\* The gate has let a DELETE pass a CREATE that is in progress.
GateFollowsTableWitness ==
    \E t \in Threads :
        /\ Gated(t)
        /\ th[t].op.type = "DELETE"
        /\ th[t].last.type = "CREATE"
        /\ isLastOpInProgress(th[t].last)
        /\ ret.err = "nil"

Abandoned(last) == now >= last.updatedAt + ActionTimeout

\* C5 as the specification states it: a last operation whose UpdatedAt is
\* older than ActionTimeout never blocks a new operation.
AbandonedNeverBlocks ==
    \A t \in Threads : Gated(t) /\ Abandoned(th[t].last) => ret.err = "nil"

\* C5: a last operation whose UpdatedAt is older than ActionTimeout blocks a
\* new operation in one case only, a CREATE or UPDATE after a DELETE that has
\* a deletion scheduled; in every other case the gate admits the new
\* operation, whatever the state and the Reschedule flag of the last one.
AbandonedBlocksOnlyAfterScheduledDelete ==
    \A t \in Threads :
        Gated(t) /\ Abandoned(th[t].last) =>
            (ret.err = "nil" <=>
                ~(/\ th[t].last.type = "DELETE"
                  /\ th[t].last.ds # 0
                  /\ th[t].op.type \in {"CREATE", "UPDATE"}))

\* The gate has admitted a CREATE after an abandoned CREATE that is stored
\* IN_PROGRESS.
AbandonedWitness ==
    \E t \in Threads :
        /\ Gated(t)
        /\ Abandoned(th[t].last)
        /\ th[t].last.state = "IN_PROGRESS"
        /\ th[t].last.type = "CREATE"
        /\ th[t].op.type = "CREATE"
        /\ ~th[t].op.reschedule
        /\ th[t].last.ds = 0
        /\ ret.err = "nil"

\* Thread t takes the step.
Steps(t) == th'[t] # th[t] /\ th[t].pc # "idle"

\* The reconciler of thread t commits its transaction on a CREATE operation
\* that its caller's action has run.
CreateTerminates(t) ==
    /\ th[t].pc = "reconcile"
    /\ Steps(t)
    /\ th[t].op.type = "CREATE"
    /\ th[t].action = "user"
    /\ ops'[th[t].op.id] # ops[th[t].op.id]
    /\ ops'[th[t].op.id].state \in Terminal

\* C6: when the reconciler terminates a CREATE operation, the primary
\* resource, if it exists, has Ready = (State = SUCCEEDED), and so has the
\* transitive resource recorded with operation type CREATE.
ReadyCoherence ==
    [][\A t \in Threads :
          CreateTerminates(t) =>
             LET ready == ReadyVal(ops'[th[t].op.id].state = "SUCCEEDED")
             IN  /\ res'[th[t].op.resourceID] \in {"absent", ready}
                 /\ th[t].trans = "CREATE" => res'[TransitiveID] \in {"absent", ready}]_vars

\* C7: for every operation ID the stored Errors field is written with a
\* non-empty payload at most once.
ErrorsWrittenOnce == \A id \in OpIDs : errWrites[id] <= 1

\* A call with the ID of the record it has read as the last operation of the
\* resource, stored in a terminal state, takes its store step.
LaterCall(t) ==
    /\ th[t].pc \in {"pre_store", "m_store"}
    /\ Steps(t)
    /\ th[t].last.id = th[t].op.id
    /\ th[t].last.state \in Terminal

\* The step changes no operation record and starts no action.
NotDispatched ==
    /\ ops' = ops
    /\ \A u \in Threads : th'[u].pc = "run" => th[u].pc = "run"

\* C8 as the specification states it: no later call under the ID of a
\* terminal operation, by a caller or by the scheduler, runs an action or
\* changes the stored record.
TerminalNeverRedispatched ==
    [][\A t \in Threads : LaterCall(t) => NotDispatched]_vars

\* C8: a later call under the ID of a terminal operation that is the last
\* operation of its resource runs no action and changes no record, unless
\* the submitted operation has Reschedule=true or a deletion scheduled (a
\* cooperative reschedule, or the re-drive of an orphan mitigation): a plain
\* resubmission is rejected with an error.
TerminalPlainResubmissionRejected ==
    [][\A t \in Threads :
          LaterCall(t) /\ ~th[t].op.reschedule /\ th[t].op.ds = 0 =>
             /\ NotDispatched
             /\ th'[t] = IdleThread
             /\ ret'.id = th[t].op.id
             /\ ret'.err \notin {"nil", "none"}]_vars

\* A plain resubmission of a terminal operation was rejected as executed.
TerminalResubmissionWitness ==
    /\ ret.err = "AlreadyExecuted"
    /\ ops[ret.id].state \in Terminal

\* The handler of a sync call whose caller has cancelled takes a step of
\* the reconciler in which no call fails of itself.
CancelledReconcilerStep(t) ==
    /\ th[t].kind = "sync"
    /\ th[t].cancelled
    /\ th[t].pc \in AfterAction
    /\ Steps(t)
    /\ faults' = faults

\* C9: when the caller of ScheduleSync cancels its context after the action
\* has returned, the reconciler still re-fetches the operation and commits
\* its transaction: unless the operation asks for a reschedule and the
\* action succeeded, the record is stored SUCCEEDED or FAILED.  (Setting
\* Ready on a resource that is gone fails the transaction, cancelled or
\* not.)
ReconcilerSurvivesCallerCancel ==
    [][\A t \in Threads :
          CancelledReconcilerStep(t) =>
             /\ th[t].pc = "refetch" =>
                   \/ th'[t].pc = "reconcile"
                   \/ /\ ret'.err = "nil"
                      /\ th[t].actionErr = ""
                      /\ ops[th[t].op.id].reschedule
             /\ th[t].pc = "reconcile" =>
                   \/ ops'[th[t].op.id].state \in Terminal
                         /\ ops'[th[t].op.id].updatedAt = now
                   \/ /\ th[t].actionErr = ""
                      /\ th[t].op.type = "CREATE"
                      /\ res[th[t].op.resourceID] = "absent"]_vars

\* A sync call whose caller had cancelled after the action has stored its
\* operation in a terminal state and returned.
CallerCancelWitness ==
    /\ ret.call = "sync"
    /\ ret.cancelled
    /\ ret.err \in {"nil", "ActionError"}
    /\ ~ops[ret.id].reschedule
    /\ ops[ret.id].state \in Terminal

\* C10: when the action of an async worker has panicked, the deferred
\* function of the worker stores the operation as FAILED with the
\* "job interrupted" error and the panic does not escape the worker,
\* whatever the repository returns to its re-fetch and its update.
PanicSafety ==
    [][\A t \in Threads :
          th[t].pc = "recover" /\ Steps(t) /\ ops[th[t].op.id].errors = "" =>
             /\ ~crashed'
             /\ ops'[th[t].op.id].state = "FAILED"
             /\ ops'[th[t].op.id].errors = JobInterrupted]_vars

\* No goroutine of the scheduler is alive: every handler has returned and
\* every worker is gone.
Quiescent == \A t \in Threads : th[t].pc \in {"idle", "crashed"}

\* C11: every worker that was spawned releases its pool slot and decrements
\* the wait-group on every exit path, so that once no handler and no worker
\* is left the pool occupancy and the wait-group counter are zero.
WorkersDrain == Quiescent => workers = 0 /\ wg = 0

\* C12: no operation record is stored SUCCEEDED with a non-zero
\* DeletionScheduled: every write of SUCCEEDED by the scheduler also writes
\* DeletionScheduled = zero.
SucceededClearsDeletionScheduled ==
    \A id \in OpIDs : ops[id].state = "SUCCEEDED" => ops[id].ds = 0

\* An operation that a concurrent call has read with a deletion scheduled
\* is now stored SUCCEEDED.
SucceededClearsWitness ==
    \E t \in Threads, id \in OpIDs :
        /\ th[t].last.id = id
        /\ th[t].last.ds # 0
        /\ ops[id].state = "SUCCEEDED"
        /\ ops[id].ds = 0

\* A handler that has passed admission changes the record of its operation.
ReconcilerWrites(t) ==
    /\ th[t].pc \in {"run", "refetch", "reconcile", "recover"}
    /\ Steps(t)
    /\ ops'[th[t].op.id] # ops[th[t].op.id]

\* The write resets a non-zero DeletionScheduled.
ClearsDeletionScheduled(t) ==
    ops[th[t].op.id].ds # 0 /\ ops'[th[t].op.id].ds = 0

Acts(t) == Steps(t) /\ th'[t] # [th[t] EXCEPT !.cancelled = TRUE]

\* The step starts, in thread u, the worker that runs the delete action of
\* the orphan mitigation for the operation of thread t.
MitigationChild(t, u) ==
    /\ th[u].pc = "idle"
    /\ th'[u].pc = "run"
    /\ th'[u].kind = "async"
    /\ th'[u].action = "delete"
    /\ th'[u].op = th[t].op

\* C14 as the specification states it: with the lifecycle context not
\* cancelled and no call failing, every step of the orphan mitigation
\* (the end of the delay, the read of the last operation, the gate and the
\* store) goes on to the next one, up to the start of the delete action.
MitigationAlwaysAdmitted ==
    [][\A t \in Threads :
          /\ th[t].pc \in {"delay", "m_read", "m_store"}
          /\ Acts(t)
          /\ ~smCancelled
          /\ faults' = faults
          => \/ th'[t].pc \in {"m_read", "m_store"}
             \/ \E u \in Threads : MitigationChild(t, u)]_vars

\* C14: with the lifecycle context not cancelled, the handler of a failed
\* operation that has a deletion scheduled waits for ReschedulingDelay and
\* then makes one ScheduleAsync call for the same operation: it takes a
\* pool slot if one is free, and gives up with a BrokerError if none is;
\* when the call finds that operation as the last one of its resource and
\* no repository call fails, the record is updated in place (no new record)
\* and a worker runs the delete action under the same operation.
MitigationRedrivesSameOperation ==
    [][\A t \in Threads :
          /\ th[t].pc = "delay" /\ Acts(t) /\ ~smCancelled =>
                /\ now >= th[t].delayUntil
                /\ th[t].op.state = "FAILED"
                /\ th[t].op.ds # 0
                /\ IF workers < poolSize
                   THEN /\ th'[t].pc = "m_read"
                        /\ th'[t].op = th[t].op
                        /\ workers' = workers + 1
                   ELSE /\ th'[t].pc \in {"idle", "exit"}
                        /\ th[t].kind = "sync" => ret'.err = "BrokerError"
                        /\ workers' = workers
          /\ th[t].pc = "m_store" /\ Acts(t) /\ faults' = faults
                /\ Mem(th[t].last) = th[t].op =>
                /\ \E u \in Threads : MitigationChild(t, u)
                /\ opOrder' = opOrder
                /\ ops' = [ops EXCEPT ![th[t].op.id] = Stored(th[t].op)]
                /\ wg' = wg + 1]_vars

\* The worker of an orphan mitigation is about to run the delete action
\* under the only operation record there is, stored FAILED.
MitigationWitness ==
    \E u \in Threads :
        /\ th[u].pc = "run"
        /\ th[u].action = "delete"
        /\ opOrder = <<th[u].op.id>>
        /\ Mem(ops[th[u].op.id]) = th[u].op
        /\ th[u].op.state = "FAILED"
        /\ th[u].op.ds # 0

InsideWindow(operation) ==
    operation.ds # 0 /\ now < operation.ds + ReconciliationOperationTimeout

\* C15 as the specification states it: the re-admission of an orphan
\* mitigation happens only while now < DeletionScheduled +
\* ReconciliationOperationTimeout.
ReadmissionOnlyInsideWindow ==
    [][\A t \in Threads :
          th[t].pc = "delay" /\ Acts(t) /\ th'[t].pc = "m_read" =>
             InsideWindow(th[t].op)]_vars

\* C15: the re-admission of an orphan mitigation is decided only while
\* now < DeletionScheduled + ReconciliationOperationTimeout, when the
\* failure is committed; the ScheduleAsync call itself is made
\* ReschedulingDelay later, by the handler that waited and by no other.  A
\* failure committed after the window leaves the operation FAILED and ends
\* the handler with no further ScheduleAsync call.
MitigationDecidedInsideWindow ==
    [][\A t \in Threads :
          /\ th'[t].pc = "delay" /\ th[t].pc # "delay" =>
                /\ th[t].pc = "reconcile"
                /\ th[t].actionErr # ""
                /\ InsideWindow(th[t].op)
                /\ th'[t].delayUntil = now + ReschedulingDelay
                /\ ops'[th[t].op.id].state = "FAILED"
          /\ th'[t].pc = "m_read" /\ th[t].pc # "m_read" => th[t].pc = "delay"
          /\ th[t].pc = "reconcile" /\ Acts(t) /\ th[t].actionErr # ""
                /\ ~InsideWindow(th[t].op) =>
                /\ th'[t].pc \in {"idle", "exit"}
                /\ workers' = workers
                /\ faults' = faults => ops'[th[t].op.id].state = "FAILED"]_vars

\* A sync call whose action failed after the window of its scheduled
\* deletion has returned the action's error, and nothing is left running.
OutsideWindowWitness ==
    /\ ret.call = "sync"
    /\ ret.err = "ActionError"
    /\ ops[ret.id].state = "FAILED"
    /\ ops[ret.id].ds # 0
    /\ ~InsideWindow(ops[ret.id])
    /\ Quiescent

\* The positions of a worker of ScheduleAsyncStorageAction, from the start
\* of its action to its deferred release.
WorkerPositions ==
    {"run", "refetch", "reconcile", "recover", "delay", "m_read", "m_store", "exit"}

\* C16 as the specification states it: a worker that ends with an error,
\* of the action or of the reconciler, leaves its operation stored FAILED.
AsyncFailuresRecorded ==
    [][\A t \in Threads :
          /\ th[t].kind = "async"
          /\ th[t].pc \in {"refetch", "reconcile"}
          /\ Acts(t)
          /\ th'[t].pc = "exit"
          /\ th'[t].actionErr # "nil"
          => ops'[th[t].op.id].state = "FAILED"]_vars

\* C16: ScheduleAsync returns nil in the step that stores the operation and
\* starts the worker, before the action has run; no step of a worker
\* returns anything to a caller; an error of the action is stored as FAILED
\* with an error payload, and a panic of the action as FAILED, when the
\* repository calls of the reconciler succeed.  An error of the reconciler
\* itself is only logged.
AsyncReturnsAtAdmission ==
    [][/\ ret'.call = "async" /\ ret'.err = "nil" =>
             \E t \in Threads :
                 /\ th[t].pc = "pre_store"
                 /\ th[t].kind = "async"
                 /\ th'[t].pc = "run"
                 /\ th'[t].op.id = ret'.id
                 /\ ops'[ret'.id] = Stored(th[t].op)
                 /\ wg' = wg + 1
                 /\ res' = res
       /\ \A t \in Threads :
             /\ th[t].kind = "async" /\ th[t].pc \in WorkerPositions /\ Acts(t) =>
                   ret' = NoReturn
             /\ th[t].kind = "async" /\ th[t].pc = "reconcile" /\ Acts(t)
                   /\ th[t].actionErr # "" /\ faults' = faults =>
                   /\ ops'[th[t].op.id].state = "FAILED"
                   /\ ops'[th[t].op.id].errors # ""
             /\ th[t].pc = "recover" /\ Acts(t) /\ faults' = faults =>
                   /\ ops'[th[t].op.id].state = "FAILED"
                   /\ ops'[th[t].op.id].errors # ""]_vars

\* ScheduleAsync has returned nil and the action of its worker has not run.
AsyncReturnedWitness ==
    /\ ret.call = "async"
    /\ ret.err = "nil"
    /\ \E t \in Threads :
          /\ th[t].pc = "run"
          /\ th[t].kind = "async"
          /\ th[t].action = "user"
          /\ th[t].op.id = ret.id
          /\ ops[ret.id].state = "IN_PROGRESS"

\* Thread t is the handler of a sync call whose action has returned an error.
SyncActionFailed(t) ==
    /\ th[t].kind = "sync"
    /\ th[t].pc \in {"refetch", "reconcile", "delay", "m_read", "m_store"}
    /\ th[t].actionErr # ""

FailedWithPayload(operation) == operation.state = "FAILED" /\ operation.errors # ""

\* C17 as the specification states it: whenever the action of a sync call
\* has returned an error, the call returns a non-nil error and the operation
\* is stored FAILED with an error payload by then.
SyncErrorAlwaysPersisted ==
    [][\A t \in Threads :
          SyncActionFailed(t) /\ Acts(t) /\ ret'.call = "sync" =>
             /\ ret'.err \notin {"nil", "none"}
             /\ FailedWithPayload(ops'[th[t].op.id])]_vars

\* C17: whenever the action of a sync call has returned an error, the call
\* returns a non-nil error; the transaction of the failure path, when it
\* commits, stores the operation FAILED with an error payload, and the
\* action's own error is returned only with the operation stored so.
SyncActionErrorReturned ==
    [][\A t \in Threads :
          SyncActionFailed(t) /\ Acts(t) =>
             /\ ret'.call = "sync" =>
                   /\ ret'.err \notin {"nil", "none"}
                   /\ ret'.id = th[t].op.id
             /\ ret'.err = "ActionError" => FailedWithPayload(ops'[th[t].op.id])
             /\ th[t].pc = "reconcile" /\ faults' = faults =>
                   FailedWithPayload(ops'[th[t].op.id])]_vars

\* A sync call with no deletion scheduled has returned the error of its
\* action, with the operation stored FAILED.
SyncActionErrorWitness ==
    /\ ret.call = "sync"
    /\ ret.err = "ActionError"
    /\ FailedWithPayload(ops[ret.id])
    /\ ops[ret.id].ds = 0
    /\ Quiescent

\* The step commits the transaction of the success path for thread t: the
\* action returned no error, the re-fetched operation asks for no
\* reschedule, and the reconciler returns nil.
SuccessCommitted(t) ==
    /\ th[t].pc = "reconcile"
    /\ th[t].actionErr = ""
    /\ Acts(t)
    /\ IF th[t].kind = "sync"
       THEN ret'.call = "sync" /\ ret'.err = "nil"
       ELSE th'[t].pc = "exit" /\ th'[t].actionErr = "nil"

\* C18: on the success path the stored final state is FAILED exactly when
\* the operation is not a DELETE and has a deletion scheduled, and SUCCEEDED
\* otherwise; with SUCCEEDED the errors are emptied, with FAILED the errors
\* are kept and no resource is touched; the stored DeletionScheduled is zero
\* in both cases; a CREATE that ends SUCCEEDED leaves its resource ready.
SuccessPathFinalState ==
    [][\A t \in Threads :
          SuccessCommitted(t) =>
             LET o == th[t].op
                 stored == ops'[o.id]
             IN  /\ ~o.reschedule
                 /\ stored.state = IF o.type # "DELETE" /\ o.ds # 0
                                   THEN "FAILED" ELSE "SUCCEEDED"
                 /\ stored.ds = 0
                 /\ stored.state = "SUCCEEDED" => stored.errors = ""
                 /\ stored.state = "FAILED" => stored.errors = o.errors /\ res' = res
                 /\ o.type = "CREATE" /\ stored.state = "SUCCEEDED" =>
                       res'[o.resourceID] = "ready"]_vars

\* A sync CREATE with no prior operation and no deletion scheduled has
\* returned nil: it is SUCCEEDED, its resource is ready.
CreateSucceededWitness ==
    /\ ret.call = "sync"
    /\ ret.err = "nil"
    /\ opOrder = <<ret.id>>
    /\ ops[ret.id].type = "CREATE"
    /\ ops[ret.id].state = "SUCCEEDED"
    /\ ops[ret.id].errors = ""
    /\ ops[ret.id].ds = 0
    /\ res[ops[ret.id].resourceID] = "ready"

\* The handler of thread t returns nil on the branch that keeps the
\* operation in progress.
KeptInProgressStep(t) ==
    /\ th[t].pc = "refetch"
    /\ th[t].actionErr = ""
    /\ Acts(t)
    /\ faults' = faults
    /\ ops[th[t].op.id].reschedule

StoresAfterGate(t) ==
    /\ th[t].pc = "pre_store"
    /\ Acts(t)
    /\ GateVerdict(t) = "nil"
    /\ faults' = faults

\* What that step does when the record of an operation that is resubmitted
\* under its ID is updated in place exactly under the condition updates:
\* a Create for a new ID, an Update in place, or a rejection that writes
\* nothing and runs no action.
StoreFollows(t, updates) ==
    LET operation == th[t].op
        lastOperation == th[t].last
        written == [ops EXCEPT ![operation.id] = Stored(operation)]
    IN  IF lastOperation = NoOp \/ operation.id # lastOperation.id
        THEN CanCreate(operation.id) =>
                /\ ops' = written
                /\ opOrder' = Append(opOrder, operation.id)
                /\ th'[t].pc = "run"
        ELSE IF updates
        THEN CanUpdate(operation.id) =>
                /\ ops' = written
                /\ opOrder' = opOrder
                /\ th'[t].pc = "run"
        ELSE /\ ops' = ops
             /\ opOrder' = opOrder
             /\ res' = res
             /\ th'[t].pc = "idle"
             /\ ret'.err = "AlreadyExecuted"

\* C20 as the specification states it: the record is updated in place when
\* the new operation has Reschedule set or the last operation has a
\* deletion scheduled.
StoredByLastDeletionScheduled ==
    [][\A t \in Threads :
          StoresAfterGate(t) =>
             StoreFollows(t, th[t].op.reschedule \/ th[t].last.ds # 0)]_vars

\* C20: after the gate admits an operation, a new record is created when
\* there is no last operation or the IDs differ; else the record is updated
\* in place when the new operation has Reschedule set or has itself a
\* deletion scheduled; otherwise the call is rejected as already executed,
\* nothing is written and the action is not run.
StoredByOwnDeletionScheduled ==
    [][\A t \in Threads :
          StoresAfterGate(t) =>
             StoreFollows(t, th[t].op.reschedule \/ th[t].op.ds # 0)]_vars

\* A resubmission with no reschedule and no deletion scheduled of its own
\* has been rejected, although the stored operation has a deletion
\* scheduled.
RejectedDespiteLastScheduledWitness ==
    /\ ret.err = "AlreadyExecuted"
    /\ ops[ret.id].ds # 0
    /\ ops[ret.id].state = "FAILED"

\* The threads that hold a slot of the pool: a call of ScheduleAsync from
\* its admission on, its worker up to the deferred release, and a handler
\* inside the ScheduleAsync call of an orphan mitigation.
SlotHolders ==
    {t \in Threads : \/ th[t].kind = "async" /\ th[t].pc # "idle"
                     \/ th[t].pc \in {"m_read", "m_store"}}

\* The call of ScheduleAsync of thread t, which holds a slot, ends in this
\* step without its operation having been admitted.
AdmissionFails(t) ==
    /\ th[t].kind = "async"
    /\ th[t].pc \in {"pre_read", "pre_store"}
    /\ Acts(t)
    /\ th'[t].pc \notin {"pre_store", "run"}

\* C21: a call of ScheduleAsync whose precondition fails returns that
\* error; one that had gone on to the repository gives back the slot it
\* took, so that the occupancy of the pool is again the number of calls and
\* workers that hold a slot; the wait-group is unchanged, no worker is
\* started, no action is run and no resource is touched.
FailedAdmissionReleasesSlot ==
    [][/\ \A t \in Threads :
             AdmissionFails(t) =>
                /\ ret'.call = "async"
                /\ ret'.id = th[t].op.id
                /\ ret'.err \notin {"nil", "none", "ServiceUnavailable"}
                /\ workers' = workers - 1
                /\ workers' = Cardinality(SlotHolders')
                /\ wg' = wg
                /\ res' = res
                /\ th' = [th EXCEPT ![t] = IdleThread]
       /\ ret'.call = "async" /\ ret'.err \in {"NotAllowed", "Invalid"} =>
             UNCHANGED <<workers, wg, th, ops, opOrder, res>>]_vars

\* A call of ScheduleAsync that had taken a slot has returned the error of
\* its preconditions, and the pool is empty again.
FailedAdmissionWitness ==
    /\ ret.call = "async"
    /\ ret.err \in {"StorageError", "ConcurrentOperationInProgress", "AlreadyExecuted"}
    /\ workers = 0
    /\ wg = 0
    /\ Quiescent

\* The Get of the re-fetch fails in the step of thread t: a call of the step
\* fails, and it is not the attachment of the operation to the context.
RefetchFails(t) ==
    /\ th[t].pc = "refetch"
    /\ Acts(t)
    /\ faults' # faults
    /\ ret'.err # "ContextError"
    /\ th'[t].actionErr # "ContextError"

\* The reconciler of thread t is over, with the error err.
ReconcilerExits(t, err) ==
    IF th[t].kind = "sync"
    THEN th'[t].pc = "idle" /\ ret'.call = "sync" /\ ret'.err = err
    ELSE th'[t].pc = "exit" /\ th'[t].actionErr = err /\ ret' = NoReturn

\* C22 as the specification states it: when the re-fetch fails the
\* operation is stored FAILED with the re-fetch error.
RefetchFailureAlwaysStored ==
    [][\A t \in Threads :
          RefetchFails(t) =>
             /\ ops'[th[t].op.id].state = "FAILED"
             /\ ops'[th[t].op.id].errors = "RefetchError"]_vars

\* C22: when the re-fetch fails the reconciler exits with the re-fetch
\* error, whatever the action returned: no path of the dispatch runs, no
\* resource is touched and no orphan mitigation is scheduled.  The only
\* write it may have made is the Update of the copy of the operation it
\* holds, as FAILED, with the re-fetch error when that copy has no error
\* yet; when that Update fails too the record is left as it was.
RefetchFailureExits ==
    [][\A t \in Threads :
          RefetchFails(t) =>
             LET held == th[t].op
                 written == [held EXCEPT !.state = "FAILED",
                                         !.errors = IF @ = "" THEN "RefetchError" ELSE @,
                                         !.updatedAt = now]
             IN  /\ ReconcilerExits(t, "RefetchError")
                 /\ res' = res
                 /\ workers' = workers
                 /\ wg' = wg
                 /\ opOrder' = opOrder
                 /\ \/ ops' = ops
                    \/ ops' = [ops EXCEPT ![held.id] = written]]_vars

\* A sync call whose action succeeded has returned the error of the
\* re-fetch: the operation is FAILED with that error and its resource is
\* as the action left it.
RefetchFailureWitness ==
    /\ ret.call = "sync"
    /\ ret.err = "RefetchError"
    /\ ops[ret.id].state = "FAILED"
    /\ ops[ret.id].errors = "RefetchError"
    /\ ops[ret.id].type = "CREATE"
    /\ res[ops[ret.id].resourceID] = "notready"

\* The goroutine of a handler or of a worker that is inside the reconciler
\* or the deferred recovery goes on running: the Go scheduler leaves no
\* runnable goroutine behind for ever.
LiveSpec ==
    /\ Spec
    /\ \A t \in Threads :
          WF_vars(Refetch(t)) /\ WF_vars(Reconcile(t)) /\ WF_vars(Recover(t))

\* The action of thread t has returned for the operation id, whose record
\* asks for no reschedule, and no call fails from here on.
ActionReturned(t, id) ==
    /\ th[t].pc = "refetch"
    /\ th[t].op.id = id
    /\ ~ops[id].reschedule
    /\ faults = MaxFaults

\* The record of id has since been resubmitted as a reschedule, or the
\* resource of the CREATE operation id has been deleted under it, which
\* makes the Update of the resource fail.
Overtaken(id) ==
    \/ ops[id].reschedule
    \/ ops[id].type = "CREATE" /\ res[ops[id].resourceID] = "absent"

\* C23: once the action of an admitted operation has returned, with or
\* without an error, the reconciler runs, and when no repository call fails
\* the stored state of the operation is eventually SUCCEEDED or FAILED,
\* unless another call has made the record a reschedule in the meantime.
ReconcilerSettlesOperation ==
    \A t \in Threads, id \in OpIDs :
        [](ActionReturned(t, id) => <>(ops[id].state \in Terminal \/ Overtaken(id)))

\* A call made after a failure has used the budget has returned from its
\* reconciler, with its operation FAILED after an error of the action.
SettledWitness ==
    /\ faults = MaxFaults
    /\ ret.call = "sync"
    /\ ret.err = "ActionError"
    /\ ops[ret.id].state = "FAILED"
    /\ ~ops[ret.id].reschedule
    /\ Len(opOrder) = MaxOps

\* The handler of thread t waits for the rescheduling delay, which has not
\* elapsed, and the lifecycle context is cancelled.
CancelledInDelay(t) ==
    /\ th[t].pc = "delay"
    /\ smCancelled
    /\ now < th[t].delayUntil

\* C24: when the lifecycle context is cancelled while the failure path
\* waits for the rescheduling delay, the handler ends with the error of the
\* scheduler: it makes no ScheduleAsync call (no slot is taken, no worker is
\* started, no action is run), and it writes nothing, so that the operation
\* it has committed as FAILED with a deletion scheduled stays as it is.
CancelAbortsMitigation ==
    [][\A t \in Threads :
          CancelledInDelay(t) /\ Acts(t) =>
             /\ ReconcilerExits(t, "SmCanceled")
             /\ th[t].op.state = "FAILED"
             /\ th[t].op.ds # 0
             /\ UNCHANGED <<ops, opOrder, res, workers, wg>>
             /\ \A u \in Threads \ {t} : th'[u] = th[u]]_vars

\* A sync call has returned the error of the scheduler after the lifecycle
\* context was cancelled during its wait; its operation is FAILED with the
\* deletion still scheduled and no worker was started.
CancelAbortsWitness ==
    /\ smCancelled
    /\ ret.call = "sync"
    /\ ret.err = "SmCanceled"
    /\ ops[ret.id].state = "FAILED"
    /\ ops[ret.id].ds # 0
    /\ workers = 0
    /\ wg = 0
    /\ Quiescent

\* The step is not the action of a caller or of a mitigation: what it does
\* to the repository is done by the scheduler.
SchedulerStep == \A t \in Threads : ~(th[t].pc = "run" /\ Acts(t))

\* The transaction of the reconciler of thread t fails in this step.
TransactionFails(t) ==
    /\ th[t].pc = "reconcile"
    /\ Acts(t)
    /\ IF th[t].kind = "sync" THEN ret'.err = "TxError"
       ELSE th'[t].pc = "exit" /\ th'[t].actionErr = "TxError"

HoldsWorkerSlot(t) ==
    /\ th[t].kind = "async"
    /\ th[t].pc \in WorkerPositions

\* C27: an async worker keeps its slot through its action, the reconciler,
\* the wait for the rescheduling delay and the re-admission of the orphan
\* mitigation, which takes a second slot; with a pool of one slot the
\* re-admission made by an async worker is rejected: the handler ends with
\* a BrokerError, no worker is started, nothing is written and the
\* operation it has committed as FAILED with a deletion scheduled stays so.
AsyncMitigationNeedsSecondSlot ==
    [][\A t \in Threads :
          /\ HoldsWorkerSlot(t) =>
                workers >= IF th[t].pc \in {"m_read", "m_store"} THEN 2 ELSE 1
          /\ HoldsWorkerSlot(t) /\ Acts(t) /\ th[t].pc # "exit" =>
                workers' >= IF th'[t].pc \in {"m_read", "m_store"} THEN 2 ELSE 1
          /\ HoldsWorkerSlot(t) /\ th[t].pc = "delay" /\ Acts(t)
                /\ ~CancelledInDelay(t) /\ poolSize = 1 =>
                /\ ReconcilerExits(t, "BrokerError")
                /\ th[t].op.state = "FAILED"
                /\ th[t].op.ds # 0
                /\ UNCHANGED <<ops, opOrder, res, workers, wg>>
                /\ \A u \in Threads \ {t} : th'[u] = th[u]]_vars

\* With a pool of one slot, an async worker whose mitigation was refused is
\* at its deferred release, still holding the slot; the only operation is
\* FAILED with its deletion scheduled.
AsyncMitigationRefusedWitness ==
    /\ poolSize = 1
    /\ workers = 1
    /\ \E t \in Threads : th[t].pc = "exit" /\ th[t].actionErr = "BrokerError"
    /\ Len(opOrder) = 1
    /\ ops[opOrder[1]].state = "FAILED"
    /\ ops[opOrder[1]].ds # 0

\* ------------------------------------- the action context and its watcher
\* The worker of an admitted async operation, from context.WithTimeout to
\* its deferred release, and the goroutine that watches the lifecycle
\* context for it.  The field cancelled of a worker tells whether
\* stateCtxWithOpAndTimeout is done; the record of a worker that has
\* released its slot is kept, at "finished", as the context outlives it.
WatchOperations ==
    { NewOperation(1, type, "IN_PROGRESS", "r1", reschedule, ds) :
        type \in Types, reschedule \in BOOLEAN, ds \in {0, 1} }

\* The timer of context.WithTimeout is set when the worker starts, which is
\* when the operation was stored.
Deadline(t) == ops[th[t].op.id].updatedAt + ActionTimeout

WatchInit ==
    /\ now \in 1..MaxTime
    /\ poolSize \in 1..MaxPoolSize
    /\ workers = 1
    /\ wg = 1
    /\ opOrder = <<1>>
    /\ res = [x \in ResIDs |-> "absent"]
    /\ smCancelled = FALSE
    /\ crashed = FALSE
    /\ ret = NoReturn
    /\ errWrites = [id \in OpIDs |-> 0]
    /\ submits = 0
    /\ faults = 0
    /\ \E operation \in WatchOperations :
          /\ ops = [id \in OpIDs |-> IF id = 1 THEN Stored(operation) ELSE NoOp]
          /\ th = [t \in Threads |->
                     IF t = 1 THEN Worker("async", operation, "user", "none")
                     ELSE IdleThread]

WatchFrame ==
    UNCHANGED <<poolSize, ops, opOrder, res, crashed, errWrites, submits, faults>>

\* The watcher of the worker of operation id.
Watcher(id) ==
    [IdleThread EXCEPT !.pc = "watch", !.kind = "watcher", !.op = ops[id]]

\* context.WithTimeout, defer timeoutCtxCancel(), go func() { select ... }
StartAction(t) ==
    /\ th[t].kind = "async"
    /\ th[t].pc = "run"
    /\ HasIdle
    /\ th' = [th EXCEPT ![t].pc = "act", ![LowestIdle] = Watcher(th[t].op.id)]
    /\ ret' = NoReturn
    /\ UNCHANGED <<workers, wg, now, smCancelled>>
    /\ WatchFrame

\* The timer of the context fires.
CtxTimeout(t) ==
    /\ th[t].kind = "async"
    /\ th[t].pc = "act"
    /\ ~th[t].cancelled
    /\ now >= Deadline(t)
    /\ th' = [th EXCEPT ![t].cancelled = TRUE]
    /\ ret' = NoReturn
    /\ UNCHANGED <<workers, wg, now, smCancelled>>
    /\ WatchFrame

\* stateCtxWithOpAndTimeout of the worker that watcher w was started for
\* is done.
WorkerCtxDone(w) ==
    \E t \in Threads :
        th[t].kind = "async" /\ th[t].op.id = th[w].op.id /\ th[t].cancelled

\* A variant whose select waits for the lifecycle context alone.
WatcherSelectLifecycleOnly(w) ==
    /\ th[w].kind = "watcher"
    /\ th[w].pc = "watch"
    /\ smCancelled
    /\ th' = [th EXCEPT ![w].pc = "cancel"]
    /\ ret' = NoReturn
    /\ UNCHANGED <<workers, wg, now, smCancelled>>
    /\ WatchFrame

\* select { case <-s.smCtx.Done(): ... case <-stateCtxWithOpAndTimeout.Done(): }
WatcherSelect(w) ==
    /\ th[w].kind = "watcher"
    /\ th[w].pc = "watch"
    /\ \/ /\ smCancelled
          /\ th' = [th EXCEPT ![w].pc = "cancel"]
       \/ /\ WorkerCtxDone(w)
          /\ th' = [th EXCEPT ![w] = IdleThread]
    /\ ret' = NoReturn
    /\ UNCHANGED <<workers, wg, now, smCancelled>>
    /\ WatchFrame

\* timeoutCtxCancel() in the watcher, which then ends.
WatcherCancel(w) ==
    /\ th[w].kind = "watcher"
    /\ th[w].pc = "cancel"
    /\ th' = [t \in Threads |->
                IF t = w THEN IdleThread
                ELSE IF th[t].kind = "async" /\ th[t].op.id = th[w].op.id
                THEN [th[t] EXCEPT !.cancelled = TRUE]
                ELSE th[t]]
    /\ ret' = NoReturn
    /\ UNCHANGED <<workers, wg, now, smCancelled>>
    /\ WatchFrame

\* The action returns or panics, whether its context is done or not.
ActionReturns(t) ==
    /\ th[t].kind = "async"
    /\ th[t].pc = "act"
    /\ th' = [th EXCEPT ![t].pc = "refetch"]
    /\ ret' = NoReturn
    /\ UNCHANGED <<workers, wg, now, smCancelled>>
    /\ WatchFrame

\* The function of the worker is over, after the reconciler or a panic:
\* the deferred timeoutCtxCancel() runs.
WorkerReturns(t) ==
    /\ th[t].kind = "async"
    /\ th[t].pc = "refetch"
    /\ th' = [th EXCEPT ![t].pc = "exit", ![t].cancelled = TRUE]
    /\ ret' = NoReturn
    /\ UNCHANGED <<workers, wg, now, smCancelled>>
    /\ WatchFrame

\* <-s.workers; s.wg.Done(): the worker is gone.
WorkerDone(t) ==
    /\ th[t].kind = "async"
    /\ th[t].pc = "exit"
    /\ workers' = workers - 1
    /\ wg' = wg - 1
    /\ th' = [th EXCEPT ![t].pc = "finished"]
    /\ ret' = NoReturn
    /\ UNCHANGED <<now, smCancelled>>
    /\ WatchFrame

\* Time passes while the action runs; a timer that is due fires before the
\* clock advances.
WatchTick ==
    /\ now <= MaxTime
    /\ \E t \in Threads : th[t].pc = "act"
    /\ \A t \in Threads : th[t].pc = "act" /\ ~th[t].cancelled => now < Deadline(t)
    /\ now' = now + 1
    /\ ret' = NoReturn
    /\ UNCHANGED <<workers, wg, th, smCancelled>>
    /\ WatchFrame

\* The lifecycle context of the process is cancelled.
WatchCancelLifecycle ==
    /\ ~smCancelled
    /\ smCancelled' = TRUE
    /\ ret' = NoReturn
    /\ UNCHANGED <<workers, wg, th, now>>
    /\ WatchFrame

WatchNext ==
    \/ \E t \in Threads :
          \/ StartAction(t)
          \/ CtxTimeout(t)
          \/ WatcherSelect(t)
          \/ WatcherCancel(t)
          \/ ActionReturns(t)
          \/ WorkerReturns(t)
          \/ WorkerDone(t)
    \/ WatchTick
    \/ WatchCancelLifecycle

\* A goroutine that can run does run, and a timer that is due fires; an
\* action need not return.
WatchSpec ==
    /\ WatchInit
    /\ [][WatchNext]_vars
    /\ \A t \in Threads :
          /\ WF_vars(CtxTimeout(t))
          /\ WF_vars(WatcherSelect(t))
          /\ WF_vars(WatcherCancel(t))
          /\ WF_vars(WorkerReturns(t))
          /\ WF_vars(WorkerDone(t))

WatcherAlive == \E w \in Threads : th[w].kind = "watcher"

WorkerFinished == \E t \in Threads : th[t].kind = "async" /\ th[t].pc = "finished"

\* C26 as the specification states it: the watcher has terminated by the
\* time its worker is gone.
WatcherGoneAtWorkerExit == WorkerFinished => ~WatcherAlive

\* C26: while the action runs its context becomes done only through the
\* lifecycle context or the timer, and the timer fires when ActionTimeout
\* has elapsed; a watcher that finds the lifecycle context cancelled
\* cancels the context of the action whatever the time; the context is
\* done when the function of the worker is over, so that a watcher that is
\* still there when its worker is gone is not blocked, and it terminates.
WatcherTiesContexts ==
    /\ [](\A t \in Threads :
            /\ th[t].pc = "act" /\ th[t].cancelled => smCancelled \/ now >= Deadline(t)
            /\ th[t].pc = "act" /\ ~th[t].cancelled => now <= Deadline(t)
            /\ th[t].kind = "async" /\ th[t].pc \in {"exit", "finished"} => th[t].cancelled
            /\ th[t].kind = "watcher" /\ WorkerFinished => WorkerCtxDone(t))
    /\ [][\A w \in Threads :
            th[w].kind = "watcher" /\ th[w].pc = "cancel" /\ th'[w] # th[w] =>
               WorkerCtxDone(w)' \/ ~WatcherAlive']_vars
    /\ \A t \in Threads :
          (smCancelled /\ th[t].pc = "act") ~> (th[t].cancelled \/ th[t].pc # "act")
    /\ WorkerFinished ~> ~WatcherAlive

\* The lifecycle context was cancelled while the action ran: its watcher
\* has cancelled the context of the action before the timer was due, and
\* is gone, and the action still runs.
WatcherCancelledEarlyWitness ==
    /\ smCancelled
    /\ ~WatcherAlive
    /\ \E t \in Threads :
          /\ th[t].pc = "act"
          /\ th[t].cancelled
          /\ now < Deadline(t)

====
